---- MODULE Spec2Model ----
(***************************************************************************)
(* Model of the element cache of the element_cache_demo example:           *)
(* cache/element_cache.py (class ElementCache).  One store instance works  *)
(* on a storage directory that holds metadata.json and one entry file per  *)
(* cache key.  Every file operation of the code can raise (open, json.load,*)
(* os.remove, os.listdir); the model draws the outcome of each such        *)
(* operation nondeterministically and counts the calls that met a failure  *)
(* against MaxEvents.  A write that fails leaves the file as it was; a     *)
(* read that fails (unreadable or malformed file) is drawn per call.       *)
(*                                                                         *)
(* Strings are sequences of one-character strings, so that the key         *)
(* derivation (concatenation, sorting of parameter names) is computed as   *)
(* the code computes it.                                                   *)
(*                                                                         *)
(* Specifications:                                                         *)
(*   Spec       one instance at a time on the directory, with file faults  *)
(*   SpecObs    Spec without re-opening, with a caller that remembers the  *)
(*              versions get_cache_info returned                           *)
(*   SpecKey    _generate_cache_key alone, on params dicts given by their  *)
(*              items in insertion order                                   *)
(*   SpecShared two instances on one directory, store_elements split at    *)
(*              its two file writes                                        *)
(*   SpecCoord  the element lookup of the examples: get_cached_elements    *)
(*              and the cache manager over the store and the live page     *)
(*   SpecAlias  one instance and the dict objects of its caller: the       *)
(*              caller changes a dict it passed in or was given            *)
(*   SpecLookup get_dom_element_by_index_with_cache of the extended        *)
(*              browser context, over the cache manager                    *)
(*   SpecWarm   initialize_cache over a list of urls, one page call at a   *)
(*              time                                                       *)
(*   SpecRun    run_ui_test of ui_test_demo (two saved versions): the six  *)
(*              steps, the report and the browser                          *)
(*   SpecInput  InputTextAction._try_input_methods of ui_enhanced_actions: *)
(*              the three input methods, one page call at a time           *)
(* Each specification leaves the variables of the others at their idle     *)
(* values.                                                                 *)
(***************************************************************************)
EXTENDS Integers, Sequences, FiniteSets, TLC

\* ---------------------------------------------------------------- bounds
\* the writes plus the calls that meet a failing file operation, in one
\* behaviour (time.time() is read once per write and the model's clock ticks
\* once per write, so the clock counts the writes)
MaxEvents == 3

\* ---------------------------------------------------------------- strings
\* code points of the characters that occur in the modelled strings
CharCode ==
    [c \in {"&", "1", "=", "?", "a", "b", "c", "u"} |->
        CASE c = "&" -> 38
          [] c = "1" -> 49
          [] c = "=" -> 61
          [] c = "?" -> 63
          [] c = "a" -> 97
          [] c = "b" -> 98
          [] c = "c" -> 99
          [] c = "u" -> 117]

\* Python's str ordering: lexicographic by code point, a proper prefix first
RECURSIVE StrLess(_, _)
StrLess(s, t) ==
    IF t = <<>> THEN FALSE
    ELSE IF s = <<>> THEN TRUE
    ELSE IF Head(s) = Head(t) THEN StrLess(Tail(s), Tail(t))
    ELSE CharCode[Head(s)] < CharCode[Head(t)]

\* sorted(params.items()): the parameter names in ascending order
RECURSIVE SortedNames(_)
SortedNames(names) ==
    IF names = {} THEN <<>>
    ELSE LET m == CHOOSE n \in names : \A o \in names \ {n} : StrLess(n, o)
         IN  <<m>> \o SortedNames(names \ {m})

\* "&".join(f"{k}={v}" for k, v in ...) over the names of ns, in that order
RECURSIVE JoinItems(_, _)
JoinItems(ns, params) ==
    IF ns = <<>> THEN <<>>
    ELSE LET item == Head(ns) \o <<"=">> \o params[Head(ns)]
         IN  IF Len(ns) = 1 THEN item
             ELSE item \o <<"&">> \o JoinItems(Tail(ns), params)

\* params=None and params={} are both falsy; both are the empty mapping here
NoParams == <<>>

\* the url argument left out (clear_cache()); differs from every string
None == <<"None">>

_generate_cache_key(url, params) ==
    IF DOMAIN params = {} THEN url
    ELSE url \o <<"?">> \o JoinItems(SortedNames(DOMAIN params), params)

\* ---------------------------------------------------------------- inputs
ParamA1 == [n \in {<<"a">>} |-> <<"1">>]

\* the (url, params) pairs the callers pass
Inputs ==
    { << <<>>, NoParams >>,
      << <<"u">>, ParamA1 >> }

Keys == { _generate_cache_key(i[1], i[2]) : i \in Inputs }

\* an element map: index -> element record; an index is <<type, digits>>,
\* the type being "int" or "str" (both occur as dict keys in Python)
EmptyMap == [i \in {} |-> "none"]

ElementMaps ==
    { EmptyMap,
      [i \in {<<"int", "0">>} |-> "input"],
      [i \in {<<"str", "0">>, <<"str", "1">>, <<"str", "2">>} |->
          CASE i[2] = "0" -> "button" [] i[2] = "1" -> "input" [] OTHER -> "a"] }

\* json.dump followed by json.load: every dict key comes back as a str
JsonRoundTrip(elements) ==
    [j \in { <<"str", i[2]>> : i \in DOMAIN elements } |->
        elements[CHOOSE i \in DOMAIN elements : i[2] = j[2]]]

\* ---------------------------------------------------------------- state
VARIABLES
    cache,      \* self.cache: cache key -> element map (partial)
    metadata,   \* self.metadata: cache key -> metadata record (partial)
    metaFile,   \* <cache_dir>/metadata.json
    entryFile,  \* <cache_dir>/<md5(key)>.json, per cache key
    ret,        \* the last call: its name, arguments, result, raised or not
    clock,      \* time.time()
    faults,     \* number of calls that met a failing file operation
    \* history of the calls, kept for the properties only
    nwrites,    \* per key: writes on this instance since the key last had
                \* no metadata (-1: the chain started from loaded metadata)
    lastWrite,  \* per key: {} or {w}, w the latest write of this instance
                \* to the key, when no eviction of the key followed it
    life,       \* per key: "never" written to the directory, "written",
                \* or, not written since, "evicted" by clear_cache(url,
                \* params) or "cleared" by a clear_cache of all keys
    persisted,  \* per key: {} or {w}, w the latest write to the key by an
                \* earlier instance, when both its files were written and
                \* no write or eviction of the key followed it
    \* the observations of one caller (specification SpecObs)
    seen,       \* per key: the highest version get_cache_info returned
                \* for the key (0: none yet)
    \* several instances on one directory (specification SpecShared)
    sess,       \* per session: its instance (self.cache, self.metadata), its
                \* position in store_elements and the result of its last read
    entryBy,    \* per key: the timestamp of the write that wrote the entry
                \* file (-1: none)
    \* the element lookup through the cache manager (specification SpecCoord)
    page,       \* the live element map of the current page
    ctx,        \* the attributes of the browser context that the lookup
                \* probes: cache_manager, get_elements_with_cache
    cres,       \* the last lookup: its arguments, the accessor it used,
                \* what the scrape and the accessor did, its result
    \* the key derivation taken alone (specification SpecKey)
    kin,        \* the arguments: a url and two params dicts, each dict as
                \* the sequence of its items in insertion order
    kout,       \* <<>> or the two cache keys derived from kin
    \* the dict objects of one caller (specification SpecAlias)
    heap,       \* the dicts the caller holds, by object: the content of
                \* each
    aref,       \* per key in self.cache: the object that self.cache binds
                \* to the key
    \* the methods extend_browser_context adds (SpecLookup, SpecWarm)
    look,       \* the last get_dom_element_by_index_with_cache: its index,
                \* the url, what it called and what it returned
    warm,       \* the initialize_cache call: its urls, its position and
                \* the steps it has completed
    \* the example scripts (SpecRun, SpecInput)
    run,        \* run_ui_test: its position, the report and the browser
    inp         \* _try_input_methods: the methods tried and its result

\* the variables of one store instance and its directory
storeVars ==
    <<cache, metadata, metaFile, entryFile, ret, clock, faults,
      nwrites, lastWrite, life, persisted>>

\* the variables of the key derivation taken alone
keyVars == <<kin, kout>>

\* the variables of the observing caller
obsVars == <<seen>>

\* the variables of the sessions that share the directory
sharedVars == <<sess, entryBy>>

\* the variables of the lookup through the cache manager
coordVars == <<page, ctx, cres>>

\* the variables of the caller's dict objects
aliasVars == <<heap, aref>>

\* the variables of the added context methods and of the example scripts
extVars == <<look, warm>>
demoVars == <<run, inp>>

vars ==
    <<storeVars, keyVars, obsVars, sharedVars, coordVars, aliasVars,
      extVars, demoVars>>

\* what each specification leaves alone
notStore ==
    <<keyVars, obsVars, sharedVars, coordVars, aliasVars, extVars, demoVars>>
notKey ==
    <<storeVars, obsVars, sharedVars, coordVars, aliasVars, extVars,
      demoVars>>
notObs == <<keyVars, sharedVars, coordVars, aliasVars, extVars, demoVars>>
notShared ==
    <<cache, metadata, ret, faults, nwrites, lastWrite, life, persisted,
      keyVars, obsVars, coordVars, aliasVars, extVars, demoVars>>
notCoord == <<keyVars, obsVars, sharedVars, aliasVars, extVars, demoVars>>
notAlias == <<keyVars, obsVars, sharedVars, coordVars, extVars, demoVars>>

KeyIdle == kin = <<>> /\ kout = <<>>

ObsIdle == seen = [k \in Keys |-> 0]

SharedIdle == sess = <<>> /\ entryBy = <<>>

CoordIdle == page = <<>> /\ ctx = <<>> /\ cres = <<>>

AliasIdle == heap = <<>> /\ aref = <<>>

ExtIdle == look = <<>> /\ warm = <<>>

DemoIdle == run = <<>> /\ inp = <<>>

EmptyMeta == [k \in {} |-> "none"]

Absent == [st |-> "absent", data |-> <<>>]
File(data) == [st |-> "ok", data |-> data]

\* a write succeeds, or open(..., 'w') raises and the file is as before
WriteOutcomes == {"ok", "unchanged"}

\* 1 when some file operation of the call failed
Cost(failed) == IF failed THEN 1 ELSE 0

\* the writes and the faulty calls so far
Events == clock + faults

Call(op, url, params) ==
    [op |-> op, url |-> url, params |-> params, elements |-> EmptyMap,
     info |-> {}, urls |-> {}, raised |-> FALSE]

\* dict without one key
Without(d, key) == [k \in DOMAIN d \ {key} |-> d[k]]

\* ---------------------------------------------------------------- helpers
\* open(file, 'w') + json.dump(data, f), wrapped in try/except
WriteFile(file, data, outcome) ==
    IF outcome = "ok" THEN File(data) ELSE file

_save_metadata(md, outcome) == WriteFile(metaFile, md, outcome)

Init ==
    /\ cache = EmptyMap
    /\ metadata = EmptyMeta
    /\ metaFile = Absent
    /\ entryFile = [k \in Keys |-> Absent]
    /\ ret = Call("init", None, NoParams)
    /\ clock = 0
    /\ faults = 0
    /\ nwrites = [k \in Keys |-> 0]
    /\ lastWrite = [k \in Keys |-> {}]
    /\ life = [k \in Keys |-> "never"]
    /\ persisted = [k \in Keys |-> {}]
    /\ KeyIdle
    /\ ObsIdle
    /\ SharedIdle
    /\ CoordIdle
    /\ AliasIdle
    /\ ExtIdle
    /\ DemoIdle

\* self.cache[cache_key] = elements
CachePutAlone(c, key, elements) == [k \in {key} |-> elements]

CachePutMerged(c, key, elements) ==
    [k \in DOMAIN c \cup {key} |->
        IF k # key THEN c[k]
        ELSE IF key \notin DOMAIN c THEN elements
        ELSE [i \in DOMAIN c[key] \cup DOMAIN elements |->
                 IF i \in DOMAIN elements THEN elements[i] ELSE c[key][i]]]

CachePut(c, key, elements) ==
    [k \in DOMAIN c \cup {key} |-> IF k = key THEN elements ELSE c[k]]

\* self.metadata.get(cache_key, {}).get("version", 0) + 1
NextVersionFromZero(md, key) ==
    IF key \in DOMAIN md THEN md[key].version + 1 ELSE 0

NextVersionReset(md, key) == 1

NextVersionDown(md, key) ==
    IF key \in DOMAIN md THEN md[key].version - 1 ELSE 1

NextVersion(md, key) ==
    (IF key \in DOMAIN md THEN md[key].version ELSE 0) + 1

\* len(elements)
ElementCountOffByOne(elements) == Cardinality(DOMAIN elements) + 1

ElementCount(elements) == Cardinality(DOMAIN elements)

\* cache_key in self.cache
InMemoryNever(c, key) == FALSE

InMemory(c, key) == key \in DOMAIN c

\* what get_elements returns: the in-memory entry, else the content of the
\* entry file when it exists and loads, else {}
LookupEmpty(c, file, key, readOk) == EmptyMap

Lookup(c, file, key, readOk) ==
    IF InMemory(c, key) THEN c[key]
    ELSE IF file.st = "absent" THEN EmptyMap
    ELSE IF readOk THEN file.data
    ELSE EmptyMap

\* ---------------------------------------------------------------- actions
store_elements(url, elements, params, metaOut, fileOut) ==
    LET cache_key == _generate_cache_key(url, params)
        meta == [url |-> url, timestamp |-> clock,
                 element_count |-> ElementCount(elements),
                 version |-> NextVersion(metadata, cache_key)]
        md == [k \in DOMAIN metadata \cup {cache_key} |->
                  IF k = cache_key THEN meta ELSE metadata[k]]
    IN  /\ Events + 1 + Cost(metaOut # "ok" \/ fileOut # "ok") <= MaxEvents
        /\ clock' = clock + 1
        /\ cache' = CachePut(cache, cache_key, elements)
        /\ metadata' = md
        /\ metaFile' = _save_metadata(md, metaOut)
        /\ entryFile' = [entryFile EXCEPT ![cache_key] =
                            WriteFile(@, JsonRoundTrip(elements), fileOut)]
        /\ ret' = [Call("store_elements", url, params) EXCEPT
                      !.elements = elements]
        /\ faults' = faults + Cost(metaOut # "ok" \/ fileOut # "ok")
        /\ nwrites' = [nwrites EXCEPT ![cache_key] =
                          IF @ = -1 THEN -1 ELSE @ + 1]
        /\ lastWrite' = [lastWrite EXCEPT ![cache_key] =
                            {[elements |-> elements, meta |-> meta,
                              metaOut |-> metaOut, fileOut |-> fileOut]}]
        /\ life' = [life EXCEPT ![cache_key] = "written"]
        /\ persisted' = [persisted EXCEPT ![cache_key] = {}]

get_elements(url, params, readOk) ==
    LET cache_key == _generate_cache_key(url, params)
        file == entryFile[cache_key]
        call == Call("get_elements", url, params)
    IN  /\ Events + Cost(~readOk) <= MaxEvents
        /\ IF InMemory(cache, cache_key)
           THEN \* served from memory: the file is not opened, readable
                \* or not
                /\ ret' = [call EXCEPT !.elements = cache[cache_key]]
                /\ UNCHANGED <<cache, faults>>
           ELSE IF file.st = "absent"
           THEN \* os.path.exists(cache_file) is False
                /\ readOk
                /\ ret' = call
                /\ UNCHANGED <<cache, faults>>
           ELSE IF readOk
           THEN \* loaded: the in-memory layer is populated
                /\ cache' = CachePut(cache, cache_key, file.data)
                /\ ret' = [call EXCEPT !.elements = file.data]
                /\ UNCHANGED faults
           ELSE \* open or json.load raised: logged, falls through to {}
                /\ ret' = call
                /\ faults' = faults + 1
                /\ UNCHANGED cache
        /\ UNCHANGED <<metadata, metaFile, entryFile, clock, nwrites,
                       lastWrite, life, persisted>>

\* [meta.get("url") for meta in self.metadata.values() if "url" in meta],
\* as a set (the order of the list is the dict's, which callers ignore)
AllUrlsKeys(md) == DOMAIN md

AllUrls(md) == { md[k].url : k \in DOMAIN md }

get_all_urls ==
    /\ ret' = [Call("get_all_urls", None, NoParams) EXCEPT
                  !.urls = AllUrls(metadata)]
    /\ UNCHANGED <<cache, metadata, metaFile, entryFile, clock, faults,
                   nwrites, lastWrite, life, persisted>>

get_cache_info(url, params) ==
    LET cache_key == _generate_cache_key(url, params)
    IN  /\ ret' = [Call("get_cache_info", url, params) EXCEPT
                      !.info = IF cache_key \in DOMAIN metadata
                               THEN {metadata[cache_key]} ELSE {}]
        /\ UNCHANGED <<cache, metadata, metaFile, entryFile, clock, faults,
                       nwrites, lastWrite, life, persisted>>

\* both files of the write w were written
OkOutcome(w) == w.metaOut = "ok" /\ w.fileOut = "ok"

\* the files of the directory whose name ends in ".json"
JsonFiles(mf, ef) ==
    { k \in Keys : ef[k].st # "absent" }
        \cup (IF mf.st # "absent" THEN {None} ELSE {})

\* clear_cache(url, params); keep: the files whose os.remove raises;
\* listOk: os.listdir(cache_dir) returns
clear_cache(url, params, metaOut, keep, listOk) ==
    IF url # None /\ url # <<>>
    THEN LET cache_key == _generate_cache_key(url, params)
             known == cache_key \in DOMAIN metadata
             md == Without(metadata, cache_key)
             exists == entryFile[cache_key].st # "absent"
         IN  /\ listOk
             /\ (~known) => metaOut = "ok"
             /\ keep \subseteq (IF exists THEN {cache_key} ELSE {})
             /\ Events + Cost(metaOut # "ok" \/ keep # {}) <= MaxEvents
             /\ faults' = faults + Cost(metaOut # "ok" \/ keep # {})
             /\ cache' = Without(cache, cache_key)
             /\ metadata' = md
             /\ metaFile' = IF known THEN _save_metadata(md, metaOut)
                            ELSE metaFile
             /\ entryFile' = [entryFile EXCEPT ![cache_key] =
                                 IF cache_key \in keep THEN @ ELSE Absent]
             /\ ret' = Call("clear_cache", url, params)
             /\ nwrites' = [nwrites EXCEPT ![cache_key] = 0]
             /\ lastWrite' = [lastWrite EXCEPT ![cache_key] = {}]
             /\ life' = [life EXCEPT ![cache_key] = "evicted"]
             /\ persisted' = [persisted EXCEPT ![cache_key] = {}]
             /\ UNCHANGED clock
    ELSE LET saved == _save_metadata(EmptyMeta, metaOut)
             files == JsonFiles(saved, entryFile)
             nfail == Cost(metaOut # "ok" \/ keep # {} \/ ~listOk)
         IN  /\ keep \subseteq (IF listOk THEN files ELSE {})
             /\ Events + nfail <= MaxEvents
             /\ faults' = faults + nfail
             /\ cache' = EmptyMap
             /\ metadata' = EmptyMeta
             /\ metaFile' = IF listOk /\ None \notin keep THEN Absent
                            ELSE saved
             /\ entryFile' = IF listOk
                             THEN [k \in Keys |->
                                     IF k \in keep THEN entryFile[k]
                                     ELSE Absent]
                             ELSE entryFile
             /\ ret' = [Call("clear_cache", url, params) EXCEPT
                           !.raised = ~listOk]
             /\ nwrites' = [k \in Keys |-> 0]
             /\ lastWrite' = [k \in Keys |-> {}]
             /\ life' = IF listOk
                        THEN [k \in Keys |->
                                IF url = <<>> /\ k = _generate_cache_key(url, params)
                                THEN "evicted" ELSE "cleared"]
                        ELSE life
             /\ persisted' = [k \in Keys |-> {}]
             /\ UNCHANGED clock

\* _load_metadata: the content of metadata.json when the file exists and
\* loads; {} when it does not exist or open/json.load raised
_load_metadata_skipped(mf, loadOk) == EmptyMeta

_load_metadata(mf, loadOk) ==
    IF mf.st = "ok" /\ loadOk THEN mf.data ELSE EmptyMeta

\* ElementCache(cache_dir) on the same directory: __init__ and _load_metadata
Open(loadOk) ==
    /\ Events + Cost(~loadOk) <= MaxEvents
    /\ (metaFile.st = "absent") => loadOk
    /\ faults' = faults + Cost(~loadOk)
    /\ cache' = EmptyMap
    /\ metadata' = _load_metadata(metaFile, loadOk)
    /\ ret' = Call("init", None, NoParams)
    /\ nwrites' = [k \in Keys |->
                     IF k \in DOMAIN metadata' THEN -1 ELSE 0]
    /\ lastWrite' = [k \in Keys |-> {}]
    /\ persisted' = [k \in Keys |->
                       IF ~loadOk THEN {}
                       ELSE IF \E w \in lastWrite[k] : OkOutcome(w)
                       THEN lastWrite[k]
                       ELSE persisted[k]]
    /\ UNCHANGED <<metaFile, entryFile, clock, life>>

Next ==
    \/ \E i \in Inputs, e \in ElementMaps,
          mo \in WriteOutcomes, fo \in WriteOutcomes :
          store_elements(i[1], e, i[2], mo, fo) /\ UNCHANGED notStore
    \/ \E i \in Inputs, readOk \in BOOLEAN :
          get_elements(i[1], i[2], readOk) /\ UNCHANGED notStore
    \/ \E i \in Inputs : get_cache_info(i[1], i[2]) /\ UNCHANGED notStore
    \/ get_all_urls /\ UNCHANGED notStore
    \/ \E i \in Inputs \cup {<<None, NoParams>>}, mo \in WriteOutcomes,
          keep \in SUBSET (Keys \cup {None}), listOk \in BOOLEAN :
          clear_cache(i[1], i[2], mo, keep, listOk) /\ UNCHANGED notStore
    \/ \E loadOk \in BOOLEAN : Open(loadOk) /\ UNCHANGED notStore

Spec == Init /\ [][Next]_vars

\* ------------------------------------------- the key derivation taken alone
\* the number of parameters of a params dict
MaxParams == 2

\* the parameter names, in the order the bound admits them
NameList == << <<"a">>, <<"b">>, <<"c">> >>

Names == { NameList[i] : i \in 1..MaxParams }

\* the parameter values: a plain one, the empty string, and one that holds
\* the characters the key is built with
Values == { <<"1">>, <<>>, <<"&", "b", "=">> }

KeyUrls == { <<>>, <<"u">> }

\* params.items() of every dict of at most MaxParams parameters, in every
\* insertion order: sequences of <<name, value>> with distinct names
ItemSeqs ==
    UNION { { it \in [1..n -> Names \X Values] :
                \A i \in 1..n, j \in 1..n : i # j => it[i][1] # it[j][1] } :
            n \in 0..MaxParams }

\* Python's tuple ordering on (name, value)
ItemLess(x, y) ==
    \/ StrLess(x[1], y[1])
    \/ x[1] = y[1] /\ StrLess(x[2], y[2])

\* item put into an ascending sequence, after the items not greater than it
RECURSIVE Insert(_, _)
Insert(item, sorted) ==
    IF sorted = <<>> THEN <<item>>
    ELSE IF ItemLess(item, Head(sorted)) THEN <<item>> \o sorted
    ELSE <<Head(sorted)>> \o Insert(item, Tail(sorted))

\* sorted(params.items())
SortedItemsAsGiven(items) == items

RECURSIVE SortedItems(_)
SortedItems(items) ==
    IF items = <<>> THEN <<>>
    ELSE Insert(items[Len(items)], SortedItems(SubSeq(items, 1, Len(items) - 1)))

\* "&".join(f"{k}={v}" for k, v in items)
JoinPairsFirst(items) ==
    IF items = <<>> THEN <<>>
    ELSE Head(items)[1] \o <<"=">> \o Head(items)[2]

RECURSIVE JoinPairs(_)
JoinPairs(items) ==
    IF items = <<>> THEN <<>>
    ELSE LET item == Head(items)[1] \o <<"=">> \o Head(items)[2]
         IN  IF Len(items) = 1 THEN item
             ELSE item \o <<"&">> \o JoinPairs(Tail(items))

\* _generate_cache_key on a dict given by its items in insertion order
_generate_cache_key_items(url, items) ==
    IF items = <<>> THEN url
    ELSE url \o <<"?">> \o JoinPairs(SortedItems(items))

\* the store as constructed and never used
StoreIdle ==
    /\ cache = EmptyMap
    /\ metadata = EmptyMeta
    /\ metaFile = Absent
    /\ entryFile = [k \in Keys |-> Absent]
    /\ ret = Call("init", None, NoParams)
    /\ clock = 0
    /\ faults = 0
    /\ nwrites = [k \in Keys |-> 0]
    /\ lastWrite = [k \in Keys |-> {}]
    /\ life = [k \in Keys |-> "never"]
    /\ persisted = [k \in Keys |-> {}]

KeyInit ==
    /\ kin \in [url : KeyUrls, a : ItemSeqs, b : ItemSeqs]
    /\ kout = <<>>
    /\ StoreIdle
    /\ ObsIdle
    /\ SharedIdle
    /\ CoordIdle
    /\ AliasIdle
    /\ ExtIdle
    /\ DemoIdle

\* the two calls of _generate_cache_key
DeriveKeys ==
    /\ kout = <<>>
    /\ kout' = << _generate_cache_key_items(kin.url, kin.a),
                  _generate_cache_key_items(kin.url, kin.b) >>
    /\ UNCHANGED <<kin, notKey>>

KeyNext == DeriveKeys

SpecKey == KeyInit /\ [][KeyNext]_vars

\* ------------------------------------ one caller observing the versions
\* the caller keeps the highest version get_cache_info returned per key
Observe(url, params) ==
    LET cache_key == _generate_cache_key(url, params)
    IN  seen' = [seen EXCEPT ![cache_key] =
                    IF cache_key \in DOMAIN metadata
                       /\ metadata[cache_key].version > @
                    THEN metadata[cache_key].version ELSE @]

ObsInit ==
    /\ StoreIdle /\ KeyIdle /\ ObsIdle /\ SharedIdle /\ CoordIdle
    /\ AliasIdle /\ ExtIdle /\ DemoIdle

\* the calls of one caller on one instance
ObsNext ==
    \/ \E i \in Inputs, e \in ElementMaps,
          mo \in WriteOutcomes, fo \in WriteOutcomes :
          store_elements(i[1], e, i[2], mo, fo) /\ UNCHANGED <<seen, notObs>>
    \/ \E i \in Inputs, readOk \in BOOLEAN :
          get_elements(i[1], i[2], readOk) /\ UNCHANGED <<seen, notObs>>
    \/ \E i \in Inputs :
          get_cache_info(i[1], i[2]) /\ Observe(i[1], i[2])
              /\ UNCHANGED notObs
    \/ \E i \in Inputs \cup {<<None, NoParams>>}, mo \in WriteOutcomes,
          keep \in SUBSET (Keys \cup {None}), listOk \in BOOLEAN :
          clear_cache(i[1], i[2], mo, keep, listOk)
              /\ UNCHANGED <<seen, notObs>>

SpecObs == ObsInit /\ [][ObsNext]_vars

\* ------------------------------------- several instances on one directory
\* the writes of all sessions together
MaxSharedWrites == 2

\* each session runs its own ElementCache on the same cache_dir
Sessions == {"s1", "s2"}

\* an instance as constructed on the empty directory, between two calls
NewSession ==
    [cache |-> EmptyMap, metadata |-> EmptyMeta, pc |-> "idle",
     key |-> <<>>, elements |-> EmptyMap, got |-> <<>>]

SharedInit ==
    /\ sess = [s \in Sessions |-> NewSession]
    /\ entryBy = [k \in Keys |-> -1]
    /\ StoreIdle
    /\ KeyIdle
    /\ ObsIdle
    /\ CoordIdle
    /\ AliasIdle
    /\ ExtIdle
    /\ DemoIdle

\* store_elements up to and including self._save_metadata() (lines 107-120)
StoreSaveMetadata(s, url, elements, params) ==
    LET me == sess[s]
        cache_key == _generate_cache_key(url, params)
        meta == [url |-> url, timestamp |-> clock,
                 element_count |-> ElementCount(elements),
                 version |-> NextVersion(me.metadata, cache_key)]
        md == [k \in DOMAIN me.metadata \cup {cache_key} |->
                  IF k = cache_key THEN meta ELSE me.metadata[k]]
    IN  /\ me.pc = "idle"
        /\ clock < MaxSharedWrites
        /\ clock' = clock + 1
        /\ sess' = [sess EXCEPT ![s] =
                       [me EXCEPT !.cache = CachePut(me.cache, cache_key, elements),
                                  !.metadata = md,
                                  !.pc = "saved",
                                  !.key = cache_key,
                                  !.elements = elements]]
        /\ metaFile' = WriteFile(metaFile, md, "ok")
        /\ UNCHANGED <<entryFile, entryBy, notShared>>

\* the rest of store_elements: the entry file is written (lines 123-129)
StoreWriteEntry(s) ==
    LET me == sess[s]
    IN  /\ me.pc = "saved"
        /\ entryFile' = [entryFile EXCEPT ![me.key] =
                            WriteFile(@, JsonRoundTrip(me.elements), "ok")]
        /\ entryBy' = [entryBy EXCEPT ![me.key] =
                          me.metadata[me.key].timestamp]
        /\ sess' = [sess EXCEPT ![s] =
                       [me EXCEPT !.pc = "idle", !.key = <<>>,
                                  !.elements = EmptyMap]]
        /\ UNCHANGED <<metaFile, clock, notShared>>

\* get_elements of one session
SessionGet(s, url, params) ==
    LET me == sess[s]
        cache_key == _generate_cache_key(url, params)
        file == entryFile[cache_key]
        hit == InMemory(me.cache, cache_key)
        elements == Lookup(me.cache, file, cache_key, TRUE)
    IN  /\ me.pc = "idle"
        /\ sess' = [sess EXCEPT ![s] =
                       [me EXCEPT !.cache = IF hit \/ file.st = "absent" THEN @
                                            ELSE CachePut(@, cache_key, elements),
                                  !.got = <<cache_key, elements>>]]
        /\ UNCHANGED <<metaFile, entryFile, clock, entryBy, notShared>>

SharedNext ==
    \/ \E s \in Sessions, i \in Inputs, e \in ElementMaps :
          StoreSaveMetadata(s, i[1], e, i[2])
    \/ \E s \in Sessions : StoreWriteEntry(s)
    \/ \E s \in Sessions, i \in Inputs : SessionGet(s, i[1], i[2])

SpecShared == SharedInit /\ [][SharedNext]_vars

\* --------------------------------- the lookup through the cache manager
\* the scrapes that return (each is followed by a write to the store)
MaxRefreshes == 2

\* the urls of the pages (a page url carries its query string; the manager
\* passes no params to the store)
PageUrls == Keys

\* the last lookup, before any
NoLookup ==
    [op |-> "none", url |-> <<>>, force |-> FALSE, accessor |-> "none",
     readFault |-> FALSE, scrape |-> "none", alt |-> "none",
     altResult |-> EmptyMap, result |-> EmptyMap, raised |-> FALSE]

CoordInit ==
    /\ page = EmptyMap
    /\ ctx \in [cache_manager : {FALSE}, get_elements_with_cache : BOOLEAN]
    /\ cres = NoLookup
    /\ StoreIdle
    /\ KeyIdle
    /\ ObsIdle
    /\ SharedIdle
    /\ AliasIdle
    /\ ExtIdle
    /\ DemoIdle

\* the page shows other elements
PageChanges(p) ==
    /\ p # page
    /\ page' = p
    /\ cres' = [NoLookup EXCEPT !.op = "page"]
    /\ UNCHANGED <<ctx, storeVars, notCoord>>

\* extend_browser_context: a new ElementCache on the directory and a
\* CacheManager on it become attributes of the context
extend_browser_context(loadOk) ==
    /\ Open(loadOk)
    /\ ctx' = [ctx EXCEPT !.cache_manager = TRUE]
    /\ cres' = [NoLookup EXCEPT !.op = "extend"]
    /\ UNCHANGED <<page, notCoord>>

\* CacheManager.get_elements_with_cache(url, force_refresh): what the store
\* returned to it (nothing asked when force_refresh)
Found(url, force, readOk) ==
    LET cache_key == _generate_cache_key(url, NoParams)
    IN  IF force THEN EmptyMap
        ELSE Lookup(cache, entryFile[cache_key], cache_key, readOk)

\* the store's read would open the entry file of the url's key
ReadsFile(url, force) ==
    LET cache_key == _generate_cache_key(url, NoParams)
    IN  /\ ~force
        /\ ~InMemory(cache, cache_key)
        /\ entryFile[cache_key].st # "absent"

\* ... what the call does to the scrape collaborator and hands back
ManagerOutcome(url, force, readOk, scrapeOk) ==
    IF Found(url, force, readOk) # EmptyMap
    THEN [scrape |-> "none", result |-> Found(url, force, readOk),
          raised |-> FALSE, readFault |-> FALSE]
    ELSE IF scrapeOk
    THEN [scrape |-> "returned", result |-> page, raised |-> FALSE,
          readFault |-> ~readOk]
    ELSE [scrape |-> "raised", result |-> EmptyMap, raised |-> TRUE,
          readFault |-> ~readOk]

\* ... and what it does to the store: a hit is the store's read; a miss or a
\* forced refresh scrapes and, when the scrape returns, writes the scraped
\* map to the store before returning
ManagerEffect(url, force, readOk, scrapeOk, metaOut, fileOut) ==
    IF Found(url, force, readOk) # EmptyMap
    THEN /\ readOk /\ scrapeOk /\ metaOut = "ok" /\ fileOut = "ok"
         /\ get_elements(url, NoParams, TRUE)
    ELSE IF scrapeOk
    THEN /\ readOk \/ ReadsFile(url, force)
         /\ clock < MaxRefreshes
         /\ store_elements(url, page, NoParams, metaOut, fileOut)
    ELSE /\ metaOut = "ok" /\ fileOut = "ok"
         /\ readOk \/ ReadsFile(url, force)
         /\ IF force THEN UNCHANGED storeVars
            ELSE get_elements(url, NoParams, readOk)

\* cache_manager.get_elements_with_cache called on the context directly
\* (get_dom_element_by_index_with_cache, initialize_cache)
get_elements_with_cache(url, force, readOk, scrapeOk, metaOut, fileOut) ==
    LET out == ManagerOutcome(url, force, readOk, scrapeOk)
    IN  /\ ctx.cache_manager
        /\ ManagerEffect(url, force, readOk, scrapeOk, metaOut, fileOut)
        /\ cres' = [NoLookup EXCEPT
                       !.op = "get_elements_with_cache", !.url = url,
                       !.force = force, !.accessor = "cache_manager",
                       !.readFault = out.readFault, !.scrape = out.scrape,
                       !.result = out.result, !.raised = out.raised]
        /\ UNCHANGED <<page, ctx, notCoord>>

\* get_cached_elements: the accessor it takes, by the attributes it finds
AccessorManagerOnly(c) ==
    IF c.cache_manager THEN "cache_manager" ELSE "none"

Accessor(c) ==
    IF c.cache_manager THEN "cache_manager"
    ELSE IF c.get_elements_with_cache THEN "get_elements_with_cache"
    ELSE "none"

\* get_cached_elements(context, url, force_refresh); altOk, altResult: what
\* context.get_elements_with_cache does when it is the accessor taken
get_cached_elements(url, force, readOk, scrapeOk, mo, fo, altOk, altResult) ==
    LET accessor == Accessor(ctx)
        out == ManagerOutcome(url, force, readOk, scrapeOk)
        call == [NoLookup EXCEPT !.op = "get_cached_elements", !.url = url,
                                 !.force = force, !.accessor = accessor]
    IN  /\ IF accessor = "cache_manager"
           THEN /\ altOk /\ altResult = EmptyMap
                /\ ManagerEffect(url, force, readOk, scrapeOk, mo, fo)
                \* except Exception: logged, {} returned
                /\ cres' = [call EXCEPT !.readFault = out.readFault,
                                        !.scrape = out.scrape,
                                        !.result = out.result]
           ELSE IF accessor = "get_elements_with_cache"
           THEN /\ readOk /\ scrapeOk /\ mo = "ok" /\ fo = "ok"
                /\ altOk \/ altResult = EmptyMap
                /\ cres' = [call EXCEPT
                               !.alt = IF altOk THEN "returned" ELSE "raised",
                               !.altResult = altResult,
                               !.result = IF altOk THEN altResult ELSE EmptyMap]
                /\ UNCHANGED storeVars
           ELSE /\ readOk /\ scrapeOk /\ mo = "ok" /\ fo = "ok"
                /\ altOk /\ altResult = EmptyMap
                /\ cres' = call
                /\ UNCHANGED storeVars
        /\ UNCHANGED <<page, ctx, notCoord>>

CoordNext ==
    \/ \E p \in ElementMaps : PageChanges(p)
    \/ extend_browser_context(TRUE)
    \/ \E u \in PageUrls, force \in BOOLEAN, readOk \in BOOLEAN,
          scrapeOk \in BOOLEAN :
          get_elements_with_cache(u, force, readOk, scrapeOk, "ok", "ok")
    \/ \E u \in PageUrls, force \in BOOLEAN, readOk \in BOOLEAN,
          scrapeOk \in BOOLEAN, altOk \in BOOLEAN, altResult \in ElementMaps :
          get_cached_elements(u, force, readOk, scrapeOk, "ok", "ok",
                              altOk, altResult)

SpecCoord == CoordInit /\ [][CoordNext]_vars

\* ------------------------------------------ the dict objects of the caller
\* Python passes and returns dicts by reference.  heap holds the content of
\* each dict object the caller holds; aref names the object that self.cache
\* binds to each key, and cache keeps the content seen through that binding.

\* the dict objects the caller creates or is given
MaxObjects == 2

\* the contents the caller gives its dicts
CallerMaps == { e \in ElementMaps : Cardinality(DOMAIN e) <= 1 }

\* self.cache[cache_key] = <the object o>
Bind(r, key, o) ==
    [k \in DOMAIN r \cup {key} |-> IF k = key THEN o ELSE r[k]]

AliasInit ==
    /\ heap = <<>>
    /\ aref = EmptyMeta
    /\ StoreIdle
    /\ KeyIdle
    /\ ObsIdle
    /\ SharedIdle
    /\ CoordIdle
    /\ ExtIdle
    /\ DemoIdle

\* store_elements(url, E, params) where E is the dict object o: one the
\* caller holds already, or a new one with the content e
store_elements_of(url, o, e, params) ==
    /\ o <= MaxObjects
    /\ o <= Len(heap) => e = heap[o]
    /\ store_elements(url, e, params, "ok", "ok")
    /\ heap' = IF o <= Len(heap) THEN heap ELSE Append(heap, e)
    /\ aref' = Bind(aref, _generate_cache_key(url, params), o)

\* get_elements(url, params): a memory hit returns the object self.cache
\* binds; a load binds the dict json.load built and returns it; a miss
\* returns a new {} that nothing else refers to
get_elements_of(url, params) ==
    LET cache_key == _generate_cache_key(url, params)
    IN  /\ get_elements(url, params, TRUE)
        /\ IF InMemory(cache, cache_key) \/ entryFile[cache_key].st = "absent"
           THEN UNCHANGED <<heap, aref>>
           ELSE /\ Len(heap) < MaxObjects
                /\ heap' = Append(heap, entryFile[cache_key].data)
                /\ aref' = Bind(aref, cache_key, Len(heap) + 1)

\* the caller changes the dict object o in place (E[i] = ..., del E[i],
\* E.clear()): every binding of o shows the new content e
caller_changes(o, e) ==
    /\ heap[o] # e
    /\ heap' = [heap EXCEPT ![o] = e]
    /\ cache' = [k \in DOMAIN cache |-> IF aref[k] = o THEN e ELSE cache[k]]
    /\ UNCHANGED <<aref, metadata, metaFile, entryFile, ret, clock, faults,
                   nwrites, lastWrite, life, persisted>>

\* a new ElementCache on the directory; the caller keeps its dicts
reopen ==
    /\ Open(TRUE)
    /\ aref' = EmptyMeta
    /\ UNCHANGED heap

AliasNext ==
    \/ \E i \in Inputs, o \in 1..(Len(heap) + 1), e \in CallerMaps :
          store_elements_of(i[1], o, e, i[2]) /\ UNCHANGED notAlias
    \/ \E i \in Inputs : get_elements_of(i[1], i[2]) /\ UNCHANGED notAlias
    \/ \E o \in 1..Len(heap), e \in CallerMaps :
          caller_changes(o, e) /\ UNCHANGED notAlias
    \/ reopen /\ UNCHANGED notAlias

SpecAlias == AliasInit /\ [][AliasNext]_vars

\* --------------------------- the methods added to the browser context
\* the indexes the callers ask for
Indexes == {0, 3}

\* str(index), as a key of an element map
Str(index) ==
    <<"str", CASE index = 0 -> "0" [] index = 1 -> "1"
                  [] index = 2 -> "2" [] OTHER -> "3">>

\* what original_get_dom_element_by_index returns: None or a node
Nodes == {"None", "node"}

\* the last get_dom_element_by_index_with_cache, before any; elements and
\* result are {} or hold the one value obtained
NoDomLookup ==
    [op |-> "none", index |-> 0, url |-> <<>>, elements |-> {},
     original |-> 0, result |-> {}, raised |-> FALSE]

\* lines 52-71: the cached record is taken when str(index) is a key of the
\* map, the original lookup else
ByIndexOriginal(elements, index) == "original"

ByIndex(elements, index) ==
    IF Str(index) \in DOMAIN elements THEN "cache" ELSE "original"

LookupInit ==
    /\ page = EmptyMap
    /\ ctx = [cache_manager |-> FALSE, get_elements_with_cache |-> FALSE]
    /\ cres = NoLookup
    /\ look = NoDomLookup
    /\ warm = <<>>
    /\ StoreIdle
    /\ KeyIdle
    /\ ObsIdle
    /\ SharedIdle
    /\ AliasIdle
    /\ DemoIdle

\* get_dom_element_by_index_with_cache(index); url, urlOk: what
\* _get_current_url returns, or it raises; origOk, node: what the original
\* get_dom_element_by_index does when it is called
get_dom_element_by_index_with_cache(index, url, urlOk, readOk, scrapeOk, origOk, node) ==
    LET out == ManagerOutcome(url, FALSE, readOk, scrapeOk)
        call == [NoDomLookup EXCEPT !.op = "by_index", !.index = index]
        got == [call EXCEPT !.url = url, !.elements = {out.result}]
    IN  /\ ctx.cache_manager
        /\ IF ~urlOk
           THEN \* line 47 raised
                /\ readOk /\ scrapeOk /\ origOk /\ node = "None"
                /\ look' = [call EXCEPT !.raised = TRUE]
                /\ UNCHANGED storeVars
           ELSE /\ ManagerEffect(url, FALSE, readOk, scrapeOk, "ok", "ok")
                /\ IF out.raised
                   THEN \* line 50 raised
                        /\ origOk /\ node = "None"
                        /\ look' = [call EXCEPT !.url = url, !.raised = TRUE]
                   ELSE IF ByIndex(out.result, index) = "cache"
                   THEN \* lines 54-67
                        /\ origOk /\ node = "None"
                        /\ look' = [got EXCEPT !.result =
                                       {<<"cached", out.result[Str(index)]>>}]
                   ELSE \* line 71
                        /\ origOk \/ node = "None"
                        /\ look' = [got EXCEPT
                                       !.original = 1,
                                       !.result = IF origOk
                                                  THEN {<<"original", node>>}
                                                  ELSE {},
                                       !.raised = ~origOk]
        /\ UNCHANGED <<page, ctx, cres, warm, keyVars, obsVars, sharedVars,
                       aliasVars, demoVars>>

LookupNext ==
    \/ \E p \in ElementMaps : PageChanges(p)
    \/ extend_browser_context(TRUE)
    \/ \E index \in Indexes, u \in PageUrls, urlOk \in BOOLEAN,
          readOk \in BOOLEAN, scrapeOk \in BOOLEAN, origOk \in BOOLEAN,
          node \in Nodes :
          get_dom_element_by_index_with_cache(index, u, urlOk, readOk,
                                              scrapeOk, origOk, node)

SpecLookup == LookupInit /\ [][LookupNext]_vars

\* initialize_cache(urls), one step per await of its loop body
\* the longest list of urls passed
MaxUrls == 2

UrlLists ==
    UNION { [1..n -> PageUrls] : n \in 0..MaxUrls }

\* no initialize_cache called yet
NoWarm ==
    [op |-> "none", urls |-> <<>>, i |-> 0, pc |-> "none", log |-> <<>>]

\* the statement after the one at pc, within the loop body (lines 95-100)
StepAfterNoWait(pc) ==
    CASE pc = "goto" -> "refresh" [] pc = "wait" -> "refresh"
         [] OTHER -> "goto"

StepAfter(pc) ==
    CASE pc = "goto" -> "wait" [] pc = "wait" -> "refresh" [] OTHER -> "goto"

\* the position after the body ran for urls[i]: the next url, or the end
AfterBody(w) ==
    IF w.i = Len(w.urls) THEN [w EXCEPT !.pc = "returned"]
    ELSE [w EXCEPT !.i = w.i + 1, !.pc = StepAfter("refresh")]

WarmInit ==
    /\ page = EmptyMap
    /\ ctx = [cache_manager |-> FALSE, get_elements_with_cache |-> FALSE]
    /\ cres = NoLookup
    /\ warm = NoWarm
    /\ look = <<>>
    /\ StoreIdle
    /\ KeyIdle
    /\ ObsIdle
    /\ SharedIdle
    /\ AliasIdle
    /\ DemoIdle

\* the frame of the steps of initialize_cache
notWarm ==
    <<ctx, cres, look, keyVars, obsVars, sharedVars, aliasVars, demoVars>>

\* initialize_cache(urls) is called: for url in urls
initialize_cache(urls) ==
    /\ ctx.cache_manager
    /\ warm.pc \in {"none", "returned", "raised"}
    /\ warm' = [op |-> "initialize_cache", urls |-> urls,
                i |-> IF urls = <<>> THEN 0 ELSE 1,
                pc |-> IF urls = <<>> THEN "returned" ELSE "goto",
                log |-> <<>>]
    /\ UNCHANGED <<page, storeVars, notWarm>>

\* lines 95-96: get_current_page and page.goto(url); p: what the url shows
WarmGoto(ok, p) ==
    /\ warm.pc = "goto"
    /\ ok \/ p = page
    /\ page' = p
    /\ warm' = IF ok
               THEN [warm EXCEPT
                        !.pc = StepAfter("goto"),
                        !.log = Append(@, <<"goto", warm.urls[warm.i]>>)]
               ELSE [warm EXCEPT !.pc = "raised"]
    /\ UNCHANGED <<storeVars, notWarm>>

\* line 98: page.wait_for_load_state()
WarmWait(ok) ==
    /\ warm.pc = "wait"
    /\ warm' = IF ok
               THEN [warm EXCEPT
                        !.pc = StepAfter("wait"),
                        !.log = Append(@, <<"wait", warm.urls[warm.i]>>)]
               ELSE [warm EXCEPT !.pc = "raised"]
    /\ UNCHANGED <<page, storeVars, notWarm>>

\* line 100: cache_manager.get_elements_with_cache(url, force_refresh=True)
WarmRefresh(scrapeOk) ==
    LET url == warm.urls[warm.i]
        out == ManagerOutcome(url, TRUE, TRUE, scrapeOk)
    IN  /\ warm.pc = "refresh"
        /\ ManagerEffect(url, TRUE, TRUE, scrapeOk, "ok", "ok")
        /\ warm' = IF out.raised
                   THEN [warm EXCEPT !.pc = "raised"]
                   ELSE AfterBody([warm EXCEPT
                                     !.log = Append(@, <<"refresh", url>>)])
        /\ UNCHANGED <<page, notWarm>>

WarmNext ==
    \/ extend_browser_context(TRUE)
    \/ \E urls \in UrlLists : initialize_cache(urls)
    \/ \E ok \in BOOLEAN, p \in ElementMaps : WarmGoto(ok, p)
    \/ \E ok \in BOOLEAN : WarmWait(ok)
    \/ \E scrapeOk \in BOOLEAN : WarmRefresh(scrapeOk)

SpecWarm == WarmInit /\ [][WarmNext]_vars

\* ------------------------------------------------------------ run_ui_test
\* the two versions of ui_test_demo.py kept under .history
Versions == {"173947", "180801"}

\* the number of steps of the test
LastStep == 6

\* the last step whose failure ends the run (if not stepN.success: ...
\* return False); the later version goes on after a failed step 5
StopsAtNone(ver) == 0

StopsAt(ver) == IF ver = "173947" THEN 5 ELSE 4

\* report.complete_test(): all steps of the report succeeded
AllSucceeded(report) == \A j \in 1..Len(report) : report[j][2]

\* after browser = Browser(); report.steps is empty
RunInit ==
    /\ run \in [ver : Versions, pc : {"new_context"}, k : {0},
                 report : {<<>>}, browser : {"open"}, pending : {"none"},
                 result : {"none"}]
    /\ inp = <<>>
    /\ StoreIdle
    /\ KeyIdle
    /\ ObsIdle
    /\ SharedIdle
    /\ CoordIdle
    /\ AliasIdle
    /\ ExtIdle

notRun ==
    <<inp, storeVars, keyVars, obsVars, sharedVars, coordVars, aliasVars,
      extVars>>

\* context = await browser.new_context(), before the try
NewContext(ok) ==
    /\ run.pc = "new_context"
    /\ run' = IF ok THEN [run EXCEPT !.pc = "extend"]
              ELSE [run EXCEPT !.pc = "done", !.result = "raised"]
    /\ UNCHANGED notRun

\* context = extend_browser_context(context, ...), before the try
ExtendContext(ok) ==
    /\ run.pc = "extend"
    /\ run' = IF ok THEN [run EXCEPT !.pc = "start", !.k = 1]
              ELSE [run EXCEPT !.pc = "done", !.result = "raised"]
    /\ UNCHANGED notRun

\* stepK = UITestStep(...); stepK.start(): inside the outer try only
StepStart(ok) ==
    /\ run.pc = "start"
    /\ run' = IF ok THEN [run EXCEPT !.pc = "body"]
              ELSE [run EXCEPT !.pc = "handler"]
    /\ UNCHANGED notRun

\* the try of step k with its except Exception, report.add_step(stepK) and
\* the test of stepK.success; outcome "abort": the body raised what except
\* Exception does not catch; ctOk: report.complete_test() returned
StepBody(outcome, ctOk) ==
    LET k == run.k
        report == Append(run.report, <<k, outcome = "ok">>)
        added == [run EXCEPT !.report = report]
    IN  /\ run.pc = "body"
        /\ (outcome # "fail" \/ k > StopsAt(run.ver)) => ctOk
        /\ run' = IF outcome = "abort"
                  THEN [run EXCEPT !.pc = "finally", !.pending = "raise"]
                  ELSE IF outcome = "fail" /\ k <= StopsAt(run.ver)
                  THEN IF ctOk
                       THEN [added EXCEPT !.pc = "finally",
                                          !.pending = "False"]
                       ELSE [added EXCEPT !.pc = "handler"]
                  ELSE IF k < LastStep
                  THEN [added EXCEPT !.pc = "start", !.k = k + 1]
                  ELSE [added EXCEPT !.pc = "complete"]
        /\ UNCHANGED notRun

\* success = report.complete_test(); return success
CompleteTest(ctOk) ==
    /\ run.pc = "complete"
    /\ run' = IF ctOk
              THEN [run EXCEPT
                       !.pc = "finally",
                       !.pending = IF AllSucceeded(run.report) THEN "True"
                                   ELSE "False"]
              ELSE [run EXCEPT !.pc = "handler"]
    /\ UNCHANGED notRun

\* except Exception: report.complete_test(); return False
Handler(ctOk) ==
    /\ run.pc = "handler"
    /\ run' = [run EXCEPT !.pc = "finally",
                          !.pending = IF ctOk THEN "False" ELSE "raise"]
    /\ UNCHANGED notRun

\* finally: await browser.close(); then the pending return or exception
Finally(ok) ==
    /\ run.pc = "finally"
    /\ run' = IF ok
              THEN [run EXCEPT
                       !.pc = "done", !.browser = "closed",
                       !.result = IF run.pending = "raise" THEN "raised"
                                  ELSE run.pending]
              ELSE [run EXCEPT !.pc = "done", !.result = "raised"]
    /\ UNCHANGED notRun

RunNext ==
    \/ \E ok \in BOOLEAN : NewContext(ok)
    \/ \E ok \in BOOLEAN : ExtendContext(ok)
    \/ \E ok \in BOOLEAN : StepStart(ok)
    \/ \E outcome \in {"ok", "fail", "abort"}, ctOk \in BOOLEAN :
          StepBody(outcome, ctOk)
    \/ \E ctOk \in BOOLEAN : CompleteTest(ctOk)
    \/ \E ctOk \in BOOLEAN : Handler(ctOk)
    \/ \E ok \in BOOLEAN : Finally(ok)

SpecRun == RunInit /\ [][RunNext]_vars

\* ---------------------------------- InputTextAction._try_input_methods
\* methods = [self._try_click_type, self._try_fill, self._try_js_input],
\* each by the page call it starts with
Methods == <<"click", "fill", "js">>

\* the texts passed (execute refuses the empty text), as character
\* sequences; the last holds a quote
Texts == { <<"a">>, <<"a", "b">>, <<"'">> }

\* the content of the input field before the call
FieldValues == { <<>>, <<"x">> }

\* what a page call does: it returns, raises an Exception, or raises what
\* except Exception does not catch (a cancellation)
CallOutcomes == {"ok", "raise", "abort"}

\* _try_js_input puts the text between quotes in the script it passes to
\* page.evaluate: a quote in the text ends the literal early
JsBreaks(text) == \E i \in 1..Len(text) : text[i] = "'"

\* the position after the method at position pc raised: except Exception
\* logs, the loop takes the next method; after the last one, return False
AfterRaiseGiveUp(pc) == "done"

AfterRaise(pc) ==
    CASE pc \in {"click", "type"} -> "fill"
      [] pc = "fill" -> "js"
      [] OTHER -> "done"

InputInit ==
    /\ inp \in [text : Texts, value : FieldValues, found : BOOLEAN,
                 pc : {"click"}, tried : {<<>>}, result : {"none"}]
    /\ run = <<>>
    /\ StoreIdle
    /\ KeyIdle
    /\ ObsIdle
    /\ SharedIdle
    /\ CoordIdle
    /\ AliasIdle
    /\ ExtIdle

notInput ==
    <<run, storeVars, keyVars, obsVars, sharedVars, coordVars, aliasVars,
      extVars>>

\* the method now running ends with the status st
Ended(tried, st) == [tried EXCEPT ![Len(tried)] = <<@[1], st>>]

\* the state after a page call of the running method did not return
Failed(i, tried, out) ==
    IF out = "abort"
    THEN [i EXCEPT !.pc = "done", !.result = "raised",
                   !.tried = Ended(tried, "aborted")]
    ELSE [i EXCEPT !.pc = AfterRaise(i.pc),
                   !.result = IF AfterRaise(i.pc) = "done" THEN "False"
                              ELSE "none",
                   !.tried = Ended(tried, "raised")]

\* the state after the running method returned True: return True
Succeeded(i, tried, value) ==
    [i EXCEPT !.pc = "done", !.result = "True", !.value = value,
              !.tried = Ended(tried, "returned")]

\* _try_click_type: await page.click(element.selector)
Click(out) ==
    LET tried == Append(inp.tried, <<"click", "running">>)
    IN  /\ inp.pc = "click"
        /\ inp' = IF out = "ok"
                  THEN [inp EXCEPT !.pc = "type", !.tried = tried]
                  ELSE Failed(inp, tried, out)
        /\ UNCHANGED notInput

\* _try_click_type: await page.keyboard.type(text); return True
Type(out) ==
    /\ inp.pc = "type"
    /\ inp' = IF out = "ok"
              THEN Succeeded(inp, inp.tried, inp.value \o inp.text)
              ELSE Failed(inp, inp.tried, out)
    /\ UNCHANGED notInput

\* _try_fill: await page.fill(element.selector, text); return True
Fill(out) ==
    LET tried == Append(inp.tried, <<"fill", "running">>)
    IN  /\ inp.pc = "fill"
        /\ inp' = IF out = "ok" THEN Succeeded(inp, tried, inp.text)
                  ELSE Failed(inp, tried, out)
        /\ UNCHANGED notInput

\* _try_js_input: await page.evaluate(script, element.selector); the script
\* sets el.value when document.querySelector finds el; return True
JsInput(out) ==
    LET tried == Append(inp.tried, <<"js", "running">>)
    IN  /\ inp.pc = "js"
        /\ JsBreaks(inp.text) => out # "ok"
        /\ inp' = IF out = "ok"
                  THEN Succeeded(inp, tried,
                                 IF inp.found THEN inp.text ELSE inp.value)
                  ELSE Failed(inp, tried, out)
        /\ UNCHANGED notInput

InputNext ==
    \/ \E out \in CallOutcomes : Click(out)
    \/ \E out \in CallOutcomes : Type(out)
    \/ \E out \in CallOutcomes : Fill(out)
    \/ \E out \in CallOutcomes : JsInput(out)

SpecInput == InputInit /\ [][InputNext]_vars

\* ---------------------------------------------------------------- properties
\* the cache key of the last call
RetKey == _generate_cache_key(ret.url, ret.params)

\* C1: a read of a key returns exactly the element map of the latest write
\* of this store to that key, whatever was stored for the key before the
\* write (no merge with the previous record set).
C1_WriteThenRead ==
    ret.op = "get_elements" =>
        \A w \in lastWrite[RetKey] :
            ret.elements = w.elements /\ ~ret.raised

\* a read after the second write to a key returned the one-record map
C1_Witness ==
    /\ ret.op = "get_elements"
    /\ nwrites[RetKey] = 2
    /\ \E w \in lastWrite[RetKey] :
          /\ ret.elements = w.elements
          /\ DOMAIN w.elements = {<<"int", "0">>}

\* C2: a key has a metadata record if and only if an entry for it is
\* stored, in the in-memory layer or as a durable entry file.
C2_MetadataIffEntry ==
    \A k \in Keys :
        (k \in DOMAIN metadata) <=>
            (k \in DOMAIN cache \/ entryFile[k].st # "absent")

C4_WriteIncrementsVersion ==
    [][\A k \in Keys :
          ( /\ clock' = clock + 1
            /\ ret'.op = "store_elements"
            /\ _generate_cache_key(ret'.url, ret'.params) = k
            /\ k \in DOMAIN metadata )
          => metadata'[k].version = metadata[k].version + 1]_vars

\* a write to a key whose metadata a new instance loaded from metadata.json
C4_Witness ==
    /\ ret.op = "store_elements"
    /\ nwrites[RetKey] = -1
    /\ metadata[RetKey].version = 2

\* C5: after a write of E, info reports element_count = number of records
\* of E (0 for the empty map).
C5_ElementCount ==
    ret.op = "get_cache_info" =>
        \A w \in lastWrite[RetKey] :
            \E m \in ret.info :
                m.element_count = Cardinality(DOMAIN w.elements)

\* info after the empty map replaced an earlier entry of the key
C5_Witness ==
    /\ ret.op = "get_cache_info"
    /\ nwrites[RetKey] = 2
    /\ \E w \in lastWrite[RetKey] : w.elements = EmptyMap
    /\ \E m \in ret.info : m.element_count = 0

\* C6: after evict(location, params) returned, read returns the empty map
\* and info the empty result, until the next write to the key (stated for
\* the non-empty locations: clear_cache takes an empty one as "all keys").
C6_EvictedReadsEmpty ==
    /\ (ret.op = "get_elements" /\ ret.url # <<>>
            /\ life[RetKey] = "evicted")
          => ret.elements = EmptyMap
    /\ (ret.op = "get_cache_info" /\ ret.url # <<>>
            /\ life[RetKey] = "evicted")
          => ret.info = {}

\* C7: after evictAll() returned, listLocations() is empty, the in-memory
\* layer is empty and no entry file or metadata file remains.
C7_EvictAllLeavesNothing ==
    (ret.op = "clear_cache" /\ ret.url = None /\ ~ret.raised) =>
        /\ AllUrls(metadata) = {}
        /\ cache = EmptyMap
        /\ metaFile.st = "absent"
        /\ \A k \in Keys : entryFile[k].st = "absent"

\* C8: no call raises to its caller, whatever storage fault it meets.
C8_NeverRaises == ~ret.raised

\* C9: when the persistence of a write failed (metadata file, entry file or
\* both), read returns the elements written and info the new metadata.
C9_FailedPersistKeepsMemory ==
    \A w \in (IF ret.op \in {"get_elements", "get_cache_info"}
              THEN lastWrite[RetKey] ELSE {}) :
        ~OkOutcome(w) =>
            /\ ret.op = "get_elements" => ret.elements = w.elements
            /\ ret.op = "get_cache_info" => ret.info = {w.meta}

\* a read after a write of a non-empty map both of whose files failed
C9_Witness ==
    /\ ret.op = "get_elements"
    /\ \E w \in lastWrite[RetKey] :
          /\ w.metaOut # "ok"
          /\ w.fileOut # "ok"
          /\ w.elements # EmptyMap
          /\ ret.elements = w.elements

\* C10: read of a key never written, or evicted and not rewritten, returns
\* the empty map and does not raise; info of such a key is empty.
C10_MissingKeyIsEmpty ==
    /\ (ret.op = "get_elements" /\ life[RetKey] # "written")
          => (ret.elements = EmptyMap /\ ~ret.raised)
    /\ (ret.op = "get_cache_info" /\ life[RetKey] # "written")
          => (ret.info = {} /\ ~ret.raised)

\* a read that met no failing file operation, of key k
ReadStep(k) ==
    /\ ret'.op = "get_elements"
    /\ _generate_cache_key(ret'.url, ret'.params) = k
    /\ faults' = faults

\* an info call on key k
InfoStep(k) ==
    /\ ret'.op = "get_cache_info"
    /\ _generate_cache_key(ret'.url, ret'.params) = k

\* the version and element_count of the write w, as info reports them
SameInfo(info, w) ==
    \E m \in info :
        /\ m.version = w.meta.version
        /\ m.element_count = w.meta.element_count

\* C11 as stated: after a write that met no storage fault, a new instance
\* opened on the directory returns from read a map identical to the one
\* written, and from info the version and element_count of the writer.
C11_ReopenReadsIdentical ==
    [][\A k \in Keys : \A w \in persisted[k] :
          /\ ReadStep(k) => ret'.elements = w.elements
          /\ InfoStep(k) => SameInfo(ret'.info, w)]_vars

\* C11 amended: the new instance returns every record written under the
\* string form of its index and no other record (an index 0 comes back as
\* "0"), and from info the version and element_count of the writer.
C11_ReopenReadsRecords ==
    [][\A k \in Keys : \A w \in persisted[k] :
          /\ ReadStep(k) =>
                /\ \A i \in DOMAIN w.elements :
                      /\ <<"str", i[2]>> \in DOMAIN ret'.elements
                      /\ ret'.elements[<<"str", i[2]>>] = w.elements[i]
                /\ \A j \in DOMAIN ret'.elements :
                      \E i \in DOMAIN w.elements : i[2] = j[2]
          /\ InfoStep(k) => SameInfo(ret'.info, w)]_vars

\* a new instance has read the three records an earlier instance wrote in
\* its second write to the key
C11_Witness ==
    /\ ret.op = "get_elements"
    /\ \E w \in persisted[RetKey] :
          /\ w.meta.version = 2
          /\ Cardinality(DOMAIN w.elements) = 3
          /\ ret.elements = w.elements

\* the name/value pairs of a dict, whatever the insertion order
Pairs(items) == { items[i] : i \in 1..Len(items) }

\* C12: two insertion orders of the same name/value pairs yield the same
\* cache key, for every url and every params dict.
C12_OrderInsensitive ==
    (kout # <<>> /\ Pairs(kin.a) = Pairs(kin.b)) => kout[1] = kout[2]

\* the keys of {b: "", a: "1"} and {a: "1", b: ""} on url "u" were derived
C12_Witness ==
    /\ kout # <<>>
    /\ kin.url = <<"u">>
    /\ kin.a = << << <<"b">>, <<>> >>, << <<"a">>, <<"1">> >> >>
    /\ kin.b = << << <<"a">>, <<"1">> >>, << <<"b">>, <<>> >> >>
    /\ kout[1] = kout[2]
    /\ kout[1] = <<"u", "?", "a", "=", "1", "&", "b", "=">>

\* C13: on one url, two different parameter sets yield different cache
\* keys, whatever strings the values are.
C13_DistinctParamsDistinctKeys ==
    (kout # <<>> /\ Pairs(kin.a) # Pairs(kin.b)) => kout[1] # kout[2]

\* the entry of key k in the dict d: {} when d has no such key
Entry(d, k) == IF k \in DOMAIN d THEN {d[k]} ELSE {}

\* C14: clear_cache(url, params) with a url given (the empty string
\* included) leaves the in-memory entry, the metadata record and the entry
\* file of every other key as they were.
C14_EvictOnlyOwnKey ==
    [][(ret'.op = "clear_cache" /\ ret'.url # None) =>
          \A k \in Keys \ {_generate_cache_key(ret'.url, ret'.params)} :
              /\ Entry(cache', k) = Entry(cache, k)
              /\ Entry(metadata', k) = Entry(metadata, k)
              /\ entryFile'[k] = entryFile[k]]_vars

\* C15 as stated: over any sequence of writes, reads and evictions on one
\* instance, info never reports for a key a version lower than one it
\* reported for that key before.
C15_VersionNeverDecreases ==
    ret.op = "get_cache_info" =>
        \A m \in ret.info : m.version >= seen[RetKey]

\* C15 amended: info reports the key's metadata record as it is, and the
\* version of a key that has a record is neither lowered nor removed by
\* any call other than clear_cache (evict, evictAll); the first write after
\* an eviction restarts the version at 1.
C15_VersionDecreasesOnlyOnEvict ==
    [][/\ \A k \in Keys :
             /\ InfoStep(k) => ret'.info = Entry(metadata', k)
             /\ ret'.op # "clear_cache" =>
                   \A m \in Entry(metadata, k) :
                       \E n \in Entry(metadata', k) : n.version >= m.version
             /\ (ret'.op = "store_elements" /\ life[k] \in {"evicted", "cleared"}
                    /\ _generate_cache_key(ret'.url, ret'.params) = k
                    /\ k \notin DOMAIN metadata)
                   => metadata'[k].version = 1]_vars

\* info reported version 2 of a key after it had reported version 1
C15_Witness ==
    /\ ret.op = "get_cache_info"
    /\ seen[RetKey] = 2
    /\ nwrites[RetKey] = 2
    /\ \E m \in ret.info : m.version = 2

\* C16: whoever reads the directory never finds the metadata record of
\* one write to a key together with the entry file content of another
\* write to that key, or with no entry file of the key.
C16_MetadataAndEntryOfOneWrite ==
    metaFile.st = "ok" =>
        \A k \in DOMAIN metaFile.data :
            /\ entryFile[k].st = "ok"
            /\ entryBy[k] = metaFile.data[k].timestamp

\* the entry the store holds for the page url u: in memory, else on file
CachedEntry(u) ==
    IF u \in DOMAIN cache THEN cache[u]
    ELSE IF entryFile[u].st = "ok" THEN entryFile[u].data
    ELSE EmptyMap

\* a call of the cache manager for url u, directly or by get_cached_elements
ManagerStep(u, force) ==
    /\ cres'.op \in {"get_elements_with_cache", "get_cached_elements"}
    /\ cres'.accessor = "cache_manager"
    /\ cres'.url = u
    /\ cres'.force = force

\* C17: get_elements_with_cache(url, force_refresh=False) on a url whose
\* cached entry is not empty (and is read without a storage fault) returns
\* that entry, does not scrape and does not write, whatever the page shows.
C17_HitNeverScrapes ==
    [][\A u \in PageUrls :
          (ManagerStep(u, FALSE) /\ CachedEntry(u) # EmptyMap
              /\ ~cres'.readFault)
          => /\ cres'.result = CachedEntry(u)
             /\ cres'.scrape = "none"
             /\ ~cres'.raised
             /\ clock' = clock
             /\ metadata' = metadata]_vars

\* an unforced lookup returned the cached entry while the page showed
\* other elements
C17_Witness ==
    /\ cres.op = "get_elements_with_cache"
    /\ ~cres.force
    /\ cres.scrape = "none"
    /\ cres.result # EmptyMap
    /\ cres.result = cache[cres.url]
    /\ page # cres.result
    /\ page # EmptyMap

\* C18: get_elements_with_cache(url, force_refresh=True) always scrapes;
\* when the scrape returns, the scraped map is written to the store (one
\* write: the version goes up by one, element_count is its size), it is
\* what the call returns, and the entry a read finds afterwards is exactly
\* the scraped map, with nothing of the entry held before.
C18_ForcedRefreshOverwrites ==
    [][\A u \in PageUrls :
          ManagerStep(u, TRUE)
          => /\ cres'.scrape # "none"
             /\ cres'.scrape = "returned" =>
                   /\ cres'.result = page
                   /\ ~cres'.raised
                   /\ clock' = clock + 1
                   /\ u \in DOMAIN cache' /\ cache'[u] = page
                   /\ CachedEntry(u)' = page
                   /\ \E n \in Entry(metadata', u) :
                         /\ n.element_count = Cardinality(DOMAIN page)
                         /\ \A m \in Entry(metadata, u) :
                               n.version = m.version + 1]_vars

\* a forced refresh replaced the three records held for the url by the
\* one record the page showed
C18_Witness ==
    /\ cres.op = "get_elements_with_cache"
    /\ cres.force
    /\ cres.scrape = "returned"
    /\ nwrites[cres.url] = 2
    /\ DOMAIN cres.result = {<<"int", "0">>}
    /\ cache[cres.url] = cres.result

\* C19: when the scrape raises during a lookup, the lookup raises to its
\* caller; no empty map is returned in its place.
C19_ScrapeFaultReachesCaller ==
    cres.scrape = "raised" => cres.raised

\* C20: get_cached_elements on a context without cache_manager calls
\* context.get_elements_with_cache when the context has it and returns
\* what it returned; with neither accessor it returns {}; it never raises.
C20_AlternateAccessor ==
    (cres.op = "get_cached_elements" /\ ~ctx.cache_manager) =>
        /\ ~cres.raised
        /\ ctx.get_elements_with_cache =>
              /\ cres.accessor = "get_elements_with_cache"
              /\ cres.alt # "none"
              /\ cres.alt = "returned" => cres.result = cres.altResult
        /\ ~ctx.get_elements_with_cache =>
              /\ cres.alt = "none"
              /\ cres.result = EmptyMap

\* the alternate accessor returned three records and the lookup returned
\* them
C20_Witness ==
    /\ cres.op = "get_cached_elements"
    /\ ~ctx.cache_manager
    /\ cres.accessor = "get_elements_with_cache"
    /\ cres.alt = "returned"
    /\ Cardinality(DOMAIN cres.result) = 3
    /\ cres.result = cres.altResult

\* the value of the parameter n in a dict given by its items
ValueOf(items, n) == (CHOOSE p \in Pairs(items) : p[1] = n)[2]

\* the parameter names of a dict given by its items
NamesOf(items) == { items[i][1] : i \in 1..Len(items) }

\* the two dicts have the same names and differ in the value of exactly
\* one of them
OneValueChanged(a, b) ==
    /\ NamesOf(a) = NamesOf(b)
    /\ Cardinality({ n \in NamesOf(a) : ValueOf(a, n) # ValueOf(b, n) }) = 1

\* C21: on one url and one set of parameter names, changing the value of
\* one parameter to any other string yields a different cache key.
C21_ChangedValueChangesKey ==
    (kout # <<>> /\ OneValueChanged(kin.a, kin.b)) => kout[1] # kout[2]

\* the keys of {a: "1", b: ""} and {a: "1", b: "&b="} were derived
C21_Witness ==
    /\ kout # <<>>
    /\ kin.a = << << <<"a">>, <<"1">> >>, << <<"b">>, <<>> >> >>
    /\ kin.b = << << <<"a">>, <<"1">> >>, << <<"b">>, <<"&", "b", "=">> >> >>
    /\ kout[1] # kout[2]

\* C22: element records are immutable once written: a change the caller
\* makes afterwards to the map it passed to store_elements, or to a map
\* get_elements returned, neither changes what a later get_elements of the
\* key returns nor makes the in-memory entry differ from the entry file
C22_WrittenRecordsImmutable ==
    /\ \A k \in DOMAIN cache :
          entryFile[k].st = "ok" => JsonRoundTrip(cache[k]) = entryFile[k].data
    /\ (ret.op = "get_elements" /\ RetKey \in DOMAIN cache) =>
          \A w \in lastWrite[RetKey] :
              JsonRoundTrip(ret.elements) = JsonRoundTrip(w.elements)

\* a get_elements call of key k
GetStep(k) ==
    /\ ret'.op = "get_elements"
    /\ _generate_cache_key(ret'.url, ret'.params) = k

\* C23: a get_elements that finds no in-memory entry and loads the entry
\* file puts the loaded map in self.cache; from then on every get_elements
\* of the key on this instance returns the in-memory map and meets no file
\* operation, readable file or not, and no call other than store_elements,
\* clear_cache and a new instance changes the in-memory entry.
C23_LoadPopulatesMemory ==
    [][\A k \in Keys :
          /\ (ReadStep(k) /\ k \notin DOMAIN cache /\ entryFile[k].st = "ok") =>
                /\ Entry(cache', k) = {entryFile[k].data}
                /\ ret'.elements = entryFile[k].data
          /\ (GetStep(k) /\ k \in DOMAIN cache) =>
                /\ ret'.elements = cache[k]
                /\ faults' = faults
                /\ entryFile' = entryFile
          /\ (k \in DOMAIN cache /\
                  ret'.op \in {"get_elements", "get_cache_info",
                               "get_all_urls"}) =>
                Entry(cache', k) = Entry(cache, k)]_vars

\* a get_elements served from an in-memory entry that this instance did
\* not write: it was loaded from the entry file
C23_Witness ==
    /\ ret.op = "get_elements"
    /\ RetKey \in DOMAIN cache
    /\ lastWrite[RetKey] = {}
    /\ ret.elements = cache[RetKey]
    /\ ret.elements # EmptyMap
    /\ faults > 0

\* the urls the callers passed for the keys ks
UrlsOf(ks) ==
    { i[1] : i \in { j \in Inputs : _generate_cache_key(j[1], j[2]) \in ks } }

\* the keys this instance wrote, or found in metadata.json when it was
\* opened, and has not passed to clear_cache since
Live == { k \in Keys : lastWrite[k] # {} \/ nwrites[k] = -1 }

C25_EmptyEntryIsMiss ==
    [][\A u \in PageUrls :
          (ManagerStep(u, FALSE) /\ u \in DOMAIN metadata /\
              CachedEntry(u) = EmptyMap) =>
            /\ cres'.scrape # "none"
            /\ cres'.scrape = "returned" =>
                  /\ clock' = clock + 1
                  /\ metadata'[u].version = metadata[u].version + 1
                  /\ metadata'[u].element_count = Cardinality(DOMAIN page)
                  /\ cache'[u] = page
                  /\ cres'.result = page]_vars

\* the second scrape and write in a row of a page without elements
C25_Witness ==
    /\ cres.op \in {"get_elements_with_cache", "get_cached_elements"}
    /\ cres.accessor = "cache_manager"
    /\ ~cres.force
    /\ cres.scrape = "returned"
    /\ cres.result = EmptyMap
    /\ page = EmptyMap
    /\ cres.url \in DOMAIN metadata
    /\ metadata[cres.url].version = 2
    /\ metadata[cres.url].element_count = 0
    /\ clock = 2

\* what get_elements of session s returns for key k in the present state
SessionEntry(s, k) ==
    IF k \in DOMAIN sess[s].cache THEN sess[s].cache[k]
    ELSE IF entryFile[k].st = "ok" THEN entryFile[k].data
    ELSE EmptyMap

\* session t takes one of the two steps of store_elements ...
WriteStepOf(t) == sess'[t].pc # sess[t].pc

\* ... on this key
WrittenKey(t) == IF sess[t].pc = "saved" THEN sess[t].key ELSE sess'[t].key

\* session s runs get_elements
SessionGetStep(s) ==
    /\ sess[s].pc = "idle"
    /\ sess'[s].pc = "idle"
    /\ sess'[s] # sess[s]

\* C26: a get_elements of key X by one session returns what the session
\* holds for X (in memory, else in the entry file of X), and no step of a
\* store_elements of another key Y by another session changes that: run
\* before, between or after the two file writes of the other session, the
\* read returns what it returns without the write.
C26_ReadUnaffectedByOtherKeyWrite ==
    [][/\ \A s \in Sessions :
             SessionGetStep(s) =>
                sess'[s].got[2] = SessionEntry(s, sess'[s].got[1])
       /\ \A t \in Sessions :
             WriteStepOf(t) =>
                \A s \in Sessions \ {t}, k \in Keys \ {WrittenKey(t)} :
                    SessionEntry(s, k)' = SessionEntry(s, k)]_vars

\* one session is between the two file writes of a store_elements of Y,
\* the other has read the elements of another key X
C26_Witness ==
    \E t \in Sessions, s \in Sessions :
        /\ s # t
        /\ sess[t].pc = "saved"
        /\ sess[s].got # <<>>
        /\ sess[s].got[1] # sess[t].key
        /\ sess[s].got[2] # EmptyMap
        /\ sess[s].got[2] = entryFile[sess[s].got[1]].data

\* C27: with two instances on one directory, a store_elements of key Y by
\* one instance leaves in metadata.json the record of every other key X
\* whose write (by the other instance) has completed.
C27_OtherRecordsKept ==
    [][\A t \in Sessions :
          (WriteStepOf(t) /\ metaFile.st = "ok") =>
             \A k \in DOMAIN metaFile.data \ {WrittenKey(t)} :
                 entryBy[k] = metaFile.data[k].timestamp =>
                     Entry(metaFile'.data, k) = {metaFile.data[k]}]_vars

\* C28: with two instances on one directory, a get_elements of key X that
\* starts when a store_elements of X has completed, and none is under way,
\* returns the elements of the latest completed write of X (the content of
\* the entry file), never an older in-memory copy.
C28_ReadSeesCompletedWrite ==
    [][\A s \in Sessions :
          SessionGetStep(s) =>
             LET k == sess'[s].got[1]
             IN  (/\ entryBy[k] >= 0
                  /\ \A t \in Sessions :
                        ~(sess[t].pc = "saved" /\ sess[t].key = k)) =>
                     JsonRoundTrip(sess'[s].got[2]) = entryFile[k].data]_vars

\* C29: in every state of a store, after storage faults and after a new
\* instance was opened on the directory too, the element_count that
\* get_cache_info reports for a key is the number of records that
\* get_elements returns for it (a read that itself meets an unreadable
\* file left aside).
C29_CountMatchesRead ==
    [][\A k \in Keys :
          ReadStep(k) =>
             \A m \in Entry(metadata', k) :
                 m.element_count = Cardinality(DOMAIN ret'.elements)]_vars

\* C30: store_elements(url, elements, params) changes only its own key:
\* the in-memory entry, the metadata record and the entry file of every
\* other key are after the call what they were before it.
C30_WriteOnlyOwnKey ==
    [][ret'.op = "store_elements" =>
          \A k \in Keys \ {_generate_cache_key(ret'.url, ret'.params)} :
              /\ Entry(cache', k) = Entry(cache, k)
              /\ Entry(metadata', k) = Entry(metadata, k)
              /\ entryFile'[k] = entryFile[k]]_vars

\* a write next to another key that has an entry in memory, a metadata
\* record and an entry file
C30_Witness ==
    /\ ret.op = "store_elements"
    /\ \E k \in Keys \ {RetKey} :
          /\ k \in DOMAIN cache
          /\ k \in DOMAIN metadata
          /\ entryFile[k].st = "ok"
          /\ cache[k] # EmptyMap
          /\ cache[k] # ret.elements
          /\ metadata[k].timestamp < metadata[RetKey].timestamp

\* C31: get_elements, get_cache_info and get_all_urls change neither the
\* metadata nor the files: after any of them the record of every key, the
\* metadata file and every entry file are what they were; the one thing a
\* get_elements may change is the in-memory entry of the key it read.
C31_ReadsChangeNothingDurable ==
    [][ret'.op \in {"get_elements", "get_cache_info", "get_all_urls"} =>
          /\ metadata' = metadata
          /\ metaFile' = metaFile
          /\ entryFile' = entryFile
          /\ clock' = clock
          /\ \A k \in Keys :
                (ret'.op = "get_elements" /\ GetStep(k))
                    \/ Entry(cache', k) = Entry(cache, k)]_vars

\* a get_elements that loaded the entry of its key next to the loaded
\* in-memory entry of the other key, on an instance with loaded metadata
C31_Witness ==
    /\ ret.op = "get_elements"
    /\ DOMAIN cache = Keys
    /\ DOMAIN metadata = Keys
    /\ \A k \in Keys : lastWrite[k] = {} /\ cache[k] # EmptyMap
    /\ ret.elements = cache[RetKey]

WarmStep(urls, j) ==
    << CASE j % 3 = 1 -> "goto" [] j % 3 = 2 -> "wait" [] OTHER -> "refresh",
       urls[((j - 1) \div 3) + 1] >>

\* the steps completed so far are the first steps of the full run
WarmInOrder(w) ==
    /\ Len(w.log) <= 3 * Len(w.urls)
    /\ \A j \in 1..Len(w.log) : w.log[j] = WarmStep(w.urls, j)
    /\ w.pc = "returned" => Len(w.log) = 3 * Len(w.urls)
    /\ w.pc = "raised" => Len(w.log) < 3 * Len(w.urls)

\* C33: initialize_cache(urls) takes the urls in list order; for each it
\* completes page.goto, then the load wait, then the forced refresh; on
\* normal return each entry of the list was navigated to and
\* force-refreshed once (each refresh writing what the page shows to the
\* store); once a step raised, no later step is taken.
C33_WarmInOrderThenStops ==
    [][/\ warm'.op = "initialize_cache" => WarmInOrder(warm')
       /\ (warm.pc = "raised" /\ warm'.log # <<>>) => warm' = warm
       /\ (Len(warm'.log) = Len(warm.log) + 1 /\
             warm'.log[Len(warm'.log)][1] = "refresh") =>
               LET u == warm'.log[Len(warm'.log)][2]
               IN  /\ clock' = clock + 1
                   /\ cache'[u] = page
                   /\ metadata'[u].version =
                         (IF u \in DOMAIN metadata
                          THEN metadata[u].version ELSE 0) + 1]_vars

\* a call with two different urls returned
C33_Witness ==
    /\ warm.pc = "returned"
    /\ Len(warm.urls) = 2
    /\ warm.urls[1] # warm.urls[2]
    /\ Len(warm.log) = 6
    /\ DOMAIN cache = Keys

\* run_ui_test returned (True or False), as opposed to raised
Returned == run.result \in {"True", "False"}

\* C34: in run_ui_test, step k+1 (k = 1..4) starts only after step k
\* completed successfully; when one of the steps 1 to 4 fails the run
\* returns False with exactly the steps run so far in the report; whenever
\* run_ui_test returns, the browser was closed before.
C34_StepsInOrderBrowserClosed ==
    /\ \A j \in 1..Len(run.report) : run.report[j][1] = j
    /\ run.pc \in {"start", "body"} => Len(run.report) = run.k - 1
    /\ \A j \in 1..4 :
          (j <= Len(run.report) /\ ~run.report[j][2]) =>
             /\ Len(run.report) = j
             /\ run.pc \in {"handler", "finally", "done"}
             /\ Returned => run.result = "False"
    /\ Returned => run.browser = "closed"
    /\ run.result = "True" =>
          Len(run.report) = LastStep /\ AllSucceeded(run.report)

\* step 3 failed: the run returned False with steps 1 to 3 in the report
\* and the browser closed
C34_Witness ==
    /\ run.result = "False"
    /\ run.browser = "closed"
    /\ Len(run.report) = 3
    /\ run.report[1][2] /\ run.report[2][2] /\ ~run.report[3][2]

\* C35: _try_input_methods tries click-and-type, then fill, then the
\* JavaScript input, in that order; every method before the last one tried
\* raised; it returns True as soon as a method returns, without trying the
\* later ones, and returns False only when all three methods raised.
C35_FirstMethodThatReturns ==
    /\ Len(inp.tried) <= Len(Methods)
    /\ \A j \in 1..Len(inp.tried) :
          /\ inp.tried[j][1] = Methods[j]
          /\ j < Len(inp.tried) => inp.tried[j][2] = "raised"
    /\ inp.result = "True" <=>
          (inp.tried # <<>> /\ inp.tried[Len(inp.tried)][2] = "returned")
    /\ inp.result = "True" => inp.pc = "done"
    /\ inp.result = "False" <=>
          (Len(inp.tried) = Len(Methods) /\
             \A j \in 1..Len(Methods) : inp.tried[j][2] = "raised")

\* click-and-type raised, fill returned: True, the JavaScript input not
\* tried
C35_Witness ==
    /\ inp.result = "True"
    /\ inp.tried = << <<"click", "raised">>, <<"fill", "returned">> >>
    /\ inp.value = inp.text

====
